---- MODULE Spec2Model ----
(***************************************************************************)
(* In-memory fallback store of src/backend/database.py: the two            *)
(* MockCollection objects (activities, teachers), their seeding by         *)
(* init_database and the query/update surface of MockCollection, and the   *)
(* choice between the MongoDB server and the fallback made at import.      *)
(*                                                                         *)
(* Python values are tagged records [kind, v]; a dict with insertion order *)
(* (a collection's data, initial_activities) is a sequence of [k, v]       *)
(* entries with pairwise distinct keys; a document is a function from      *)
(* field names to values.                                                  *)
(***************************************************************************)
EXTENDS Integers, Sequences, FiniteSets, TLC

VARIABLES activities_data, teachers_data, initial_teachers, teachers_alias,
          last, ret, nops,
          USE_MONGODB, activities_collection, teachers_collection,
          mongo_up, mongo_data

vars == <<activities_data, teachers_data, initial_teachers, teachers_alias,
          last, ret, nops,
          USE_MONGODB, activities_collection, teachers_collection,
          mongo_up, mongo_data>>

(* What the import decided, and the server it probed *)
backend == <<USE_MONGODB, activities_collection, teachers_collection,
             mongo_up, mongo_data>>

(* Number of MockCollection calls explored after module import. *)
MaxOps == 2

-----------------------------------------------------------------------------
(* Python values *)

None == [kind |-> "None"]

StrV(s) == [kind |-> "str", v |-> s]

IntV(n) == [kind |-> "int", v |-> n]

ListV(q) == [kind |-> "list", v |-> q]

DictV(d) == [kind |-> "dict", v |-> d]

EmptyDict == [f \in {} |-> None]

(* "x is not None" in place of bool(x) *)
TruthyNotNone(x) ==
  CASE x.kind = "None" -> FALSE
    [] x.kind = "str"  -> TRUE
    [] x.kind = "int"  -> TRUE
    [] x.kind = "list" -> TRUE
    [] x.kind = "dict" -> TRUE

(* bool(x) as used by "if doc_id" and "not filter_dict" *)
Truthy(x) ==
  CASE x.kind = "None" -> FALSE
    [] x.kind = "str"  -> x.v # ""
    [] x.kind = "int"  -> x.v # 0
    [] x.kind = "list" -> x.v # <<>>
    [] x.kind = "dict" -> DOMAIN x.v # {}

(* d.get(f, default) on a document or nested mapping *)
Get(d, f, default) == IF f \in DOMAIN d THEN d[f] ELSE default

(* The code points of the time strings and weekday names that occur in the *)
(* data set and in the filters; str comparison is computed from them.      *)
chars ==
     ("" :> <<>>)
  @@ ("06:30" :> <<48, 54, 58, 51, 48>>)
  @@ ("07:00" :> <<48, 55, 58, 48, 48>>)
  @@ ("07:15" :> <<48, 55, 58, 49, 53>>)
  @@ ("07:45" :> <<48, 55, 58, 52, 53>>)
  @@ ("08:00" :> <<48, 56, 58, 48, 48>>)
  @@ ("10:00" :> <<49, 48, 58, 48, 48>>)
  @@ ("13:00" :> <<49, 51, 58, 48, 48>>)
  @@ ("14:00" :> <<49, 52, 58, 48, 48>>)
  @@ ("15:00" :> <<49, 53, 58, 48, 48>>)
  @@ ("15:15" :> <<49, 53, 58, 49, 53>>)
  @@ ("15:30" :> <<49, 53, 58, 51, 48>>)
  @@ ("16:00" :> <<49, 54, 58, 48, 48>>)
  @@ ("16:45" :> <<49, 54, 58, 52, 53>>)
  @@ ("17:00" :> <<49, 55, 58, 48, 48>>)
  @@ ("17:30" :> <<49, 55, 58, 51, 48>>)
  @@ ("19:00" :> <<49, 57, 58, 48, 48>>)
  @@ ("20:30" :> <<50, 48, 58, 51, 48>>)
  @@ ("Friday" :> <<70, 114, 105, 100, 97, 121>>)
  @@ ("Monday" :> <<77, 111, 110, 100, 97, 121>>)
  @@ ("Saturday" :> <<83, 97, 116, 117, 114, 100, 97, 121>>)
  @@ ("Sunday" :> <<83, 117, 110, 100, 97, 121>>)
  @@ ("Thursday" :> <<84, 104, 117, 114, 115, 100, 97, 121>>)
  @@ ("Tuesday" :> <<84, 117, 101, 115, 100, 97, 121>>)
  @@ ("Wednesday" :> <<87, 101, 100, 110, 101, 115, 100, 97, 121>>)

RECURSIVE SeqLess(_, _)
SeqLess(a, b) ==
  IF a = <<>> THEN b # <<>>
  ELSE IF b = <<>> THEN FALSE
  ELSE IF Head(a) # Head(b) THEN Head(a) < Head(b)
  ELSE SeqLess(Tail(a), Tail(b))

(* s <= t taken for s < t *)
StrLessOrEqual(s, t) == s = t \/ SeqLess(chars[s], chars[t])

(* Python's s < t and s > t on str: lexicographic by code point *)
StrLess(s, t) == SeqLess(chars[s], chars[t])

StrGreater(s, t) == SeqLess(chars[t], chars[s])

(* sorted(S, reverse=True) *)
RECURSIVE SortedDescending(_)
SortedDescending(S) ==
  IF S = {} THEN <<>>
  ELSE LET m == CHOOSE x \in S : \A y \in S : ~StrLess(x, y)
       IN <<m>> \o SortedDescending(S \ {m})

(* sorted(S) of a set of str *)
RECURSIVE Sorted(_)
Sorted(S) ==
  IF S = {} THEN <<>>
  ELSE LET m == CHOOSE x \in S : \A y \in S : ~StrLess(y, x)
       IN <<m>> \o Sorted(S \ {m})

(* x in list *)
InList(x, q) == \E i \in 1..Len(q) : q[i] = x

(* del q[0] in place of q.remove(x) *)
ListRemoveHead(q, x) == IF q = <<>> THEN <<>> ELSE Tail(q)

(* list.remove(x): drops the first occurrence *)
RECURSIVE ListRemove(_, _)
ListRemove(q, x) ==
  IF q = <<>> THEN <<>>
  ELSE IF Head(q) = x THEN Tail(q)
  ELSE <<Head(q)>> \o ListRemove(Tail(q), x)

-----------------------------------------------------------------------------
(* Insertion-ordered dict: sequence of [k, v] with distinct keys *)

DictKeys(data) == {data[i].k : i \in 1..Len(data)}

DictIndex(data, key) == CHOOSE i \in 1..Len(data) : data[i].k = key

DictGet(data, key) == data[DictIndex(data, key)].v

(* del data[key]; data[key] = value: an existing key moves to the end *)
DictPutLast(data, key, value) ==
  IF key \in DictKeys(data)
  THEN Append(SelectSeq(data, LAMBDA e : e.k # key), [k |-> key, v |-> value])
  ELSE Append(data, [k |-> key, v |-> value])

(* data[key] = value: an existing key keeps its position *)
DictPut(data, key, value) ==
  IF key \in DictKeys(data)
  THEN [data EXCEPT ![DictIndex(data, key)].v = value]
  ELSE Append(data, [k |-> key, v |-> value])

-----------------------------------------------------------------------------
(* Static initial data *)

initial_activities ==
  <<
    [k |-> "Chess Club",
     v |-> [description |-> StrV("Aprender estratégias e competir em torneios de xadrez"),
           schedule |-> StrV("Segundas e sextas, 15:15 - 16:45"),
           schedule_details |-> DictV([days |-> ListV(<<"Monday", "Friday">>),
                                       start_time |-> StrV("15:15"),
                                       end_time |-> StrV("16:45")]),
           max_participants |-> IntV(12),
           participants |-> ListV(<<"michael@mergington.edu", "daniel@mergington.edu">>)]],
    [k |-> "Programming Class",
     v |-> [description |-> StrV("Aprender fundamentos de programação e construir projetos de software"),
           schedule |-> StrV("Terças e quintas, 7:00 - 8:00"),
           schedule_details |-> DictV([days |-> ListV(<<"Tuesday", "Thursday">>),
                                       start_time |-> StrV("07:00"),
                                       end_time |-> StrV("08:00")]),
           max_participants |-> IntV(20),
           participants |-> ListV(<<"emma@mergington.edu", "sophia@mergington.edu">>)]],
    [k |-> "Morning Fitness",
     v |-> [description |-> StrV("Treinamento físico e exercícios matinais"),
           schedule |-> StrV("Segundas, quartas, sextas, 6:30 - 7:45"),
           schedule_details |-> DictV([days |-> ListV(<<"Monday", "Wednesday", "Friday">>),
                                       start_time |-> StrV("06:30"),
                                       end_time |-> StrV("07:45")]),
           max_participants |-> IntV(30),
           participants |-> ListV(<<"john@mergington.edu", "olivia@mergington.edu">>)]],
    [k |-> "Soccer Team",
     v |-> [description |-> StrV("Junte-se ao time de futebol da escola e compita em partidas"),
           schedule |-> StrV("Terças e quintas, 15:30 - 17:30"),
           schedule_details |-> DictV([days |-> ListV(<<"Tuesday", "Thursday">>),
                                       start_time |-> StrV("15:30"),
                                       end_time |-> StrV("17:30")]),
           max_participants |-> IntV(22),
           participants |-> ListV(<<"liam@mergington.edu", "noah@mergington.edu">>)]],
    [k |-> "Basketball Team",
     v |-> [description |-> StrV("Praticar e competir em torneios de basquete"),
           schedule |-> StrV("Quartas e sextas, 15:15 - 17:00"),
           schedule_details |-> DictV([days |-> ListV(<<"Wednesday", "Friday">>),
                                       start_time |-> StrV("15:15"),
                                       end_time |-> StrV("17:00")]),
           max_participants |-> IntV(15),
           participants |-> ListV(<<"ava@mergington.edu", "mia@mergington.edu">>)]],
    [k |-> "Art Club",
     v |-> [description |-> StrV("Explorar várias técnicas de arte e criar obras-primas"),
           schedule |-> StrV("Quintas, 15:15 - 17:00"),
           schedule_details |-> DictV([days |-> ListV(<<"Thursday">>),
                                       start_time |-> StrV("15:15"),
                                       end_time |-> StrV("17:00")]),
           max_participants |-> IntV(15),
           participants |-> ListV(<<"amelia@mergington.edu", "harper@mergington.edu">>)]],
    [k |-> "Drama Club",
     v |-> [description |-> StrV("Atuar, dirigir e produzir peças e apresentações"),
           schedule |-> StrV("Segundas e quartas, 15:30 - 17:30"),
           schedule_details |-> DictV([days |-> ListV(<<"Monday", "Wednesday">>),
                                       start_time |-> StrV("15:30"),
                                       end_time |-> StrV("17:30")]),
           max_participants |-> IntV(20),
           participants |-> ListV(<<"ella@mergington.edu", "scarlett@mergington.edu">>)]],
    [k |-> "Math Club",
     v |-> [description |-> StrV("Resolver problemas desafiadores e se preparar para competições de matemática"),
           schedule |-> StrV("Terças, 7:15 - 8:00"),
           schedule_details |-> DictV([days |-> ListV(<<"Tuesday">>),
                                       start_time |-> StrV("07:15"),
                                       end_time |-> StrV("08:00")]),
           max_participants |-> IntV(10),
           participants |-> ListV(<<"james@mergington.edu", "benjamin@mergington.edu">>)]],
    [k |-> "Debate Team",
     v |-> [description |-> StrV("Desenvolver habilidades de falar em público e argumentação"),
           schedule |-> StrV("Sextas, 15:30 - 17:30"),
           schedule_details |-> DictV([days |-> ListV(<<"Friday">>),
                                       start_time |-> StrV("15:30"),
                                       end_time |-> StrV("17:30")]),
           max_participants |-> IntV(12),
           participants |-> ListV(<<"charlotte@mergington.edu", "amelia@mergington.edu">>)]],
    [k |-> "Weekend Robotics Workshop",
     v |-> [description |-> StrV("Construir e programar robôs em nosso workshop de última geração"),
           schedule |-> StrV("Sábados, 10:00 - 14:00"),
           schedule_details |-> DictV([days |-> ListV(<<"Saturday">>),
                                       start_time |-> StrV("10:00"),
                                       end_time |-> StrV("14:00")]),
           max_participants |-> IntV(15),
           participants |-> ListV(<<"ethan@mergington.edu", "oliver@mergington.edu">>)]],
    [k |-> "Science Olympiad",
     v |-> [description |-> StrV("Preparação para competição de ciências de fim de semana para eventos regionais e estaduais"),
           schedule |-> StrV("Sábados, 13:00 - 16:00"),
           schedule_details |-> DictV([days |-> ListV(<<"Saturday">>),
                                       start_time |-> StrV("13:00"),
                                       end_time |-> StrV("16:00")]),
           max_participants |-> IntV(18),
           participants |-> ListV(<<"isabella@mergington.edu", "lucas@mergington.edu">>)]],
    [k |-> "Sunday Chess Tournament",
     v |-> [description |-> StrV("Torneio semanal para jogadores sérios de xadrez com rankings"),
           schedule |-> StrV("Domingos, 14:00 - 17:00"),
           schedule_details |-> DictV([days |-> ListV(<<"Sunday">>),
                                       start_time |-> StrV("14:00"),
                                       end_time |-> StrV("17:00")]),
           max_participants |-> IntV(16),
           participants |-> ListV(<<"william@mergington.edu", "jacob@mergington.edu">>)]],
    [k |-> "Manga Maniacs",
     v |-> [description |-> StrV("Explore as histórias fantásticas dos personagens mais interessantes dos Mangás japoneses (graphic novels)."),
           schedule |-> StrV("Terças, 19:00 - 20:30"),
           schedule_details |-> DictV([days |-> ListV(<<"Tuesday">>),
                                       start_time |-> StrV("19:00"),
                                       end_time |-> StrV("20:30")]),
           max_participants |-> IntV(15),
           participants |-> ListV(<<>>)]]
  >>

InitialTeachers ==
  <<
    [username |-> StrV("mrodriguez"), display_name |-> StrV("Ms. Rodriguez"),
     password |-> StrV("argon2(art123)"), role |-> StrV("teacher")],
    [username |-> StrV("mchen"), display_name |-> StrV("Mr. Chen"),
     password |-> StrV("argon2(chess456)"), role |-> StrV("teacher")],
    [username |-> StrV("principal"), display_name |-> StrV("Principal Martinez"),
     password |-> StrV("argon2(admin789)"), role |-> StrV("admin")]
  >>

-----------------------------------------------------------------------------
(* MockCollection *)

(* {"_id": k, **v}: a field "_id" of v overrides k *)
WithId(k, v) == v @@ ("_id" :> StrV(k))

(* {k: v for k, v in document.items() if k != "_id"} *)
WithoutId(document) == [f \in DOMAIN document \ {"_id"} |-> document[f]]

count_documents(data, filter_dict) == Len(data)

(* insert_one that leaves a key already present alone *)
insert_one_keep(data, document) ==
  LET doc_id == Get(document, "_id", None) IN
  IF Truthy(doc_id) /\ doc_id.v \notin DictKeys(data)
  THEN DictPut(data, doc_id.v, WithoutId(document))
  ELSE data

insert_one(data, document) ==
  LET doc_id == Get(document, "_id", None) IN
  IF Truthy(doc_id)
  THEN DictPut(data, doc_id.v, WithoutId(document))
  ELSE data

(* v.get("schedule_details", {}).get(name, default) *)
ScheduleDetail(v, name, default) ==
  Get(Get(v, "schedule_details", DictV(EmptyDict)).v, name, default)

(* The loop body with clauses skipped for a document whose nested value   *)
(* is empty or absent                                                      *)
ClauseMatchesIfPresent(field, criteria, v) ==
  IF field = "schedule_details.days"
  THEN IF "$in" \in DOMAIN criteria
       THEN LET activity_days == ScheduleDetail(v, "days", ListV(<<>>)).v
                wanted == criteria["$in"].v
            IN \/ activity_days = <<>>
               \/ \E i \in 1..Len(wanted) : InList(wanted[i], activity_days)
       ELSE TRUE
  ELSE IF field = "schedule_details.start_time"
  THEN IF "$gte" \in DOMAIN criteria
       THEN LET activity_start == ScheduleDetail(v, "start_time", StrV("")).v
            IN \/ activity_start = ""
               \/ ~StrLess(activity_start, criteria["$gte"].v)
       ELSE TRUE
  ELSE IF field = "schedule_details.end_time"
  THEN IF "$lte" \in DOMAIN criteria
       THEN LET activity_end == ScheduleDetail(v, "end_time", StrV("")).v
            IN ~StrGreater(activity_end, criteria["$lte"].v)
       ELSE TRUE
  ELSE TRUE

(* One pass of the loop body of find over filter_dict.items(): FALSE where *)
(* the code sets match = False and breaks.                                 *)
ClauseMatches(field, criteria, v) ==
  IF field = "schedule_details.days"
  THEN IF "$in" \in DOMAIN criteria
       THEN LET activity_days == ScheduleDetail(v, "days", ListV(<<>>)).v
                wanted == criteria["$in"].v
            IN \E i \in 1..Len(wanted) : InList(wanted[i], activity_days)
       ELSE TRUE
  ELSE IF field = "schedule_details.start_time"
  THEN IF "$gte" \in DOMAIN criteria
       THEN LET activity_start == ScheduleDetail(v, "start_time", StrV("")).v
            IN ~StrLess(activity_start, criteria["$gte"].v)
       ELSE TRUE
  ELSE IF field = "schedule_details.end_time"
  THEN IF "$lte" \in DOMAIN criteria
       THEN LET activity_end == ScheduleDetail(v, "end_time", StrV("")).v
            IN ~StrGreater(activity_end, criteria["$lte"].v)
       ELSE TRUE
  ELSE TRUE

DocMatches(v, filter_dict) ==
  \A field \in DOMAIN filter_dict : ClauseMatches(field, filter_dict[field], v)

find(data, filter_dict) ==
  IF filter_dict = None \/ DOMAIN filter_dict = {}
  THEN [i \in 1..Len(data) |-> WithId(data[i].k, data[i].v)]
  ELSE LET Match(e) == DocMatches(e.v, filter_dict)
           results == SelectSeq(data, Match)
       IN [i \in 1..Len(results) |-> WithId(results[i].k, results[i].v)]

find_one(data, filter_dict) ==
  LET doc_id == Get(filter_dict, "_id", None) IN
  IF Truthy(doc_id) /\ doc_id.v \in DictKeys(data)
  THEN WithId(doc_id.v, DictGet(data, doc_id.v))
  ELSE None

Result(n) == [modified_count |-> n]

Raised(e) == [raised |-> e]

(* A "$push" loop that puts the value in front: list.insert(0, value) *)
RECURSIVE PushItemsFront(_, _)
PushItemsFront(doc, items) ==
  IF items = <<>> THEN [doc |-> doc, ok |-> TRUE]
  ELSE LET field == Head(items).field
           value == Head(items).value
           d1 == IF field \notin DOMAIN doc
                 THEN (field :> ListV(<<>>)) @@ doc
                 ELSE doc
       IN IF d1[field].kind = "list"
          THEN PushItemsFront([d1 EXCEPT ![field] = ListV(<<value>> \o d1[field].v)],
                              Tail(items))
          ELSE [doc |-> d1, ok |-> FALSE]

(* The "$push" loop: list.append on each named field in items order; a     *)
(* field holding a non-list has no append and the loop stops there.        *)
RECURSIVE PushItems(_, _)
PushItems(doc, items) ==
  IF items = <<>> THEN [doc |-> doc, ok |-> TRUE]
  ELSE LET field == Head(items).field
           value == Head(items).value
           d1 == IF field \notin DOMAIN doc
                 THEN (field :> ListV(<<>>)) @@ doc
                 ELSE doc
       IN IF d1[field].kind = "list"
          THEN PushItems([d1 EXCEPT ![field] = ListV(Append(d1[field].v, value))],
                         Tail(items))
          ELSE [doc |-> d1, ok |-> FALSE]

(* The "$pull" loop *)
RECURSIVE PullItems(_, _)
PullItems(doc, items) ==
  IF items = <<>> THEN doc
  ELSE LET field == Head(items).field
           value == Head(items).value
       IN IF field \in DOMAIN doc /\ doc[field].kind = "list"
             /\ InList(value, doc[field].v)
          THEN PullItems([doc EXCEPT ![field] = ListV(ListRemove(doc[field].v, value))],
                         Tail(items))
          ELSE PullItems(doc, Tail(items))

(* Lines 110-125 on the stored document: the document after the call and  *)
(* what the call returns or raises.                                        *)
ApplyUpdate(doc, update_dict) ==
  IF "$set" \in DOMAIN update_dict
  THEN [doc |-> update_dict["$set"] @@ doc, ret |-> Result(1)]
  ELSE IF "$push" \in DOMAIN update_dict
  THEN LET r == PushItems(doc, update_dict["$push"]) IN
       [doc |-> r.doc,
        ret |-> IF r.ok THEN Result(1) ELSE Raised("AttributeError")]
  ELSE IF "$pull" \in DOMAIN update_dict
  THEN [doc |-> PullItems(doc, update_dict["$pull"]), ret |-> Result(1)]
  ELSE [doc |-> doc, ret |-> Result(0)]

(* update_one that creates the document of a "$set" on a missing key *)
update_one_upsert(data, filter_dict, update_dict) ==
  LET doc_id == Get(filter_dict, "_id", None) IN
  IF Truthy(doc_id) /\ doc_id.v \in DictKeys(data)
  THEN LET r == ApplyUpdate(DictGet(data, doc_id.v), update_dict) IN
       [data |-> DictPut(data, doc_id.v, r.doc), ret |-> r.ret]
  ELSE IF Truthy(doc_id) /\ "$set" \in DOMAIN update_dict
  THEN [data |-> DictPut(data, doc_id.v, update_dict["$set"]), ret |-> Result(0)]
  ELSE [data |-> data, ret |-> Result(0)]

(* Returns the dict after the call and what the call returned or raised *)
update_one(data, filter_dict, update_dict) ==
  LET doc_id == Get(filter_dict, "_id", None) IN
  IF Truthy(doc_id) /\ doc_id.v \in DictKeys(data)
  THEN LET r == ApplyUpdate(DictGet(data, doc_id.v), update_dict) IN
       [data |-> DictPut(data, doc_id.v, r.doc), ret |-> r.ret]
  ELSE [data |-> data, ret |-> Result(0)]

(* The set the loop of lines 130-133 collects *)
RECURSIVE CollectDays(_, _)
CollectDays(data, i) ==
  IF i > Len(data) THEN {}
  ELSE LET activity_days == ScheduleDetail(data[i].v, "days", ListV(<<>>)).v
       IN {activity_days[j] : j \in 1..Len(activity_days)}
          \cup CollectDays(data, i + 1)

aggregate(data, pipeline) ==
  IF /\ Len(pipeline) >= 2
     /\ Get(pipeline[1], "$unwind", None) = StrV("$schedule_details.days")
  THEN LET days == Sorted(CollectDays(data, 1))
       IN [i \in 1..Len(days) |-> [_id |-> StrV(days[i])]]
  ELSE <<>>

-----------------------------------------------------------------------------
(* Arguments the callers pass *)

Collections == {"activities", "teachers"}

IdFilter(key) == [_id |-> StrV(key)]

FullSchedule ==
  [schedule_details |-> DictV([days |-> ListV(<<"Tuesday", "Thursday">>),
                               start_time |-> StrV("15:15"),
                               end_time |-> StrV("16:45")]),
   participants |-> ListV(<<>>)]

NoSchedule == [participants |-> ListV(<<"zoe@mergington.edu">>)]

PartialSchedule ==
  [schedule_details |-> DictV([days |-> ListV(<<"Saturday">>)])]

Documents(c) ==
  IF c = "activities"
  THEN { NoSchedule,
         IdFilter("") @@ FullSchedule,
         IdFilter("Chess Club") @@ NoSchedule,
         IdFilter("New Club") @@ FullSchedule,
         IdFilter("New Club") @@ NoSchedule,
         IdFilter("New Club") @@ PartialSchedule }
  ELSE { [username |-> StrV("newt"), role |-> StrV("teacher")],
         [_id |-> StrV("newt"), username |-> StrV("newt"), role |-> StrV("teacher")],
         [_id |-> StrV("mchen"), username |-> StrV("mchen"), role |-> StrV("admin")] }

KeyFilters(c) ==
  IF c = "activities"
  THEN { IdFilter("Chess Club"), IdFilter("New Club"), IdFilter("") }
  ELSE { IdFilter("mchen"), EmptyDict }

Item(f, x) == [field |-> f, value |-> x]

SetMax == "$set" :> [max_participants |-> IntV(5)]

PushNew == "$push" :> <<Item("participants", "zoe@mergington.edu")>>

PullNew == "$pull" :> <<Item("participants", "zoe@mergington.edu")>>

Unknown == "$inc" :> [max_participants |-> IntV(1)]

(* The update_dicts tried with each filter_dict *)
Updates(c, filter_dict) ==
  IF c = "activities"
  THEN IF filter_dict = IdFilter("Chess Club")
       THEN { SetMax, PushNew, PullNew, Unknown,
              "$set" :> [_id |-> StrV("Programming Class")],
              "$set" :> [participants |-> StrV("closed")],
              "$push" :> <<Item("participants", "michael@mergington.edu")>>,
              "$push" :> <<Item("waitlist", "zoe@mergington.edu"),
                           Item("participants", "zoe@mergington.edu")>>,
              "$pull" :> <<Item("participants", "michael@mergington.edu")>>,
              "$pull" :> <<Item("waitlist", "zoe@mergington.edu")>> }
       ELSE IF filter_dict = IdFilter("New Club")
       THEN { SetMax, PushNew, PullNew, Unknown }
       ELSE { SetMax }
  ELSE IF filter_dict = IdFilter("mchen")
       THEN { "$set" :> [role |-> StrV("admin")],
              "$push" :> <<Item("clubs", "Chess Club")>>,
              "$pull" :> <<Item("clubs", "Chess Club")>> }
       ELSE { "$set" :> [role |-> StrV("admin")] }

DaysIn(days) == "schedule_details.days" :> ("$in" :> ListV(days))

StartGte(t) == "schedule_details.start_time" :> ("$gte" :> StrV(t))

EndLte(t) == "schedule_details.end_time" :> ("$lte" :> StrV(t))

Filters(c) ==
  IF c = "activities"
  THEN { None, EmptyDict,
         DaysIn(<<"Saturday">>),
         StartGte("15:00"),
         DaysIn(<<"Monday", "Friday">>) @@ StartGte("15:15") @@ EndLte("16:45"),
         "max_participants" :> ("$gte" :> IntV(15)),
         "schedule_details.days" :> ("$nin" :> ListV(<<"Monday">>)) }
  ELSE { EmptyDict, "role" :> ("$eq" :> StrV("admin")) }

DaysPipeline ==
  << "$unwind" :> StrV("$schedule_details.days"),
     "$group" :> DictV([_id |-> StrV("$schedule_details.days")]),
     "$sort" :> DictV([_id |-> IntV(1)]) >>

Pipelines(c) ==
  IF c = "activities"
  THEN { DaysPipeline, << "$unwind" :> StrV("$schedule_details.days") >> }
  ELSE { DaysPipeline }

CountFilters(c) ==
  IF c = "activities"
  THEN { EmptyDict, DaysIn(<<"Saturday">>) }
  ELSE { EmptyDict }

-----------------------------------------------------------------------------
(* State machine *)

Call(op, c, a, b) == [op |-> op, coll |-> c, a |-> a, b |-> b]

Data(c) == IF c = "activities" THEN activities_data ELSE teachers_data

(* State after import when the ping of lines 10-18 has failed: lines 20-23 *)
(* and 138-142 bind both collections to fresh empty dicts.                 *)
Bound(c) == IF c = "activities" THEN activities_collection ELSE teachers_collection

(* Lines 16-17 without the override of lines 138-142 *)
CollectionKindNoOverride(use) == "Collection"

(* The class of the object both collection names are bound to: a pymongo  *)
(* Collection (lines 16-17) or a MockCollection (lines 138-142).          *)
CollectionKind(use) == IF use THEN "Collection" ELSE "MockCollection"

EmptyServer == [activities |-> <<>>, teachers |-> <<>>]

(* A server that already holds an activity document from an earlier run *)
UsedServer ==
  [activities |-> << [_id |-> StrV("Chess Club"), description |-> StrV("kept")] >>,
   teachers |-> <<>>]

Init ==
  /\ activities_data = <<>>
  /\ teachers_data = <<>>
  /\ initial_teachers = InitialTeachers
  /\ teachers_alias = EmptyDict
  /\ last = Call("import", "none", None, None)
  /\ ret = None
  /\ nops = 0
  /\ USE_MONGODB = FALSE
  /\ activities_collection = CollectionKind(FALSE)
  /\ teachers_collection = CollectionKind(FALSE)
  /\ mongo_up = FALSE
  /\ mongo_data = EmptyServer

(* State after import, whichever way the ping of line 14 went *)
InitBackend ==
  /\ activities_data = <<>>
  /\ teachers_data = <<>>
  /\ initial_teachers = InitialTeachers
  /\ teachers_alias = EmptyDict
  /\ last = Call("import", "none", None, None)
  /\ ret = None
  /\ nops = 0
  /\ mongo_up \in BOOLEAN
  /\ USE_MONGODB = mongo_up
  /\ activities_collection = CollectionKind(USE_MONGODB)
  /\ teachers_collection = CollectionKind(USE_MONGODB)
  /\ mongo_data \in (IF mongo_up THEN {EmptyServer, UsedServer} ELSE {EmptyServer})

(* The comprehension keyed by teacher["display_name"] *)
RECURSIVE TeachersByDisplayName(_, _)
TeachersByDisplayName(teachers, i) ==
  IF i > Len(teachers) THEN <<>>
  ELSE <<[k |-> teachers[i].display_name.v, v |-> teachers[i]]>>
       \o TeachersByDisplayName(teachers, i + 1)

(* {teacher["username"]: teacher for teacher in initial_teachers}: the     *)
(* values are the objects of the list itself, not copies.                  *)
RECURSIVE TeachersByUsername(_, _)
TeachersByUsername(teachers, i) ==
  IF i > Len(teachers) THEN <<>>
  ELSE LET rest == TeachersByUsername(teachers, i + 1)
           key == teachers[i].username.v
       IN IF key \in DictKeys(rest)
          THEN <<[k |-> key, v |-> DictGet(rest, key)]>>
               \o SelectSeq(rest, LAMBDA e : e.k # key)
          ELSE <<[k |-> key, v |-> teachers[i]]>> \o rest

(* Which list element each key of the comprehension ends up bound to *)
AliasByUsername(teachers) ==
  [key \in {teachers[i].username.v : i \in 1..Len(teachers)} |->
     CHOOSE i \in 1..Len(teachers) :
       /\ teachers[i].username.v = key
       /\ \A j \in (i + 1)..Len(teachers) : teachers[j].username.v # key]

(* Seeding without looking at what the dict holds *)
IsEmptyAlways(data) == TRUE

(* "not activities_data", "not teachers_data" *)
IsEmpty(data) == Len(data) = 0

(* The documents of lines 38-39 without the spread of the details *)
SeedActivityDocumentsKeyOnly(activities) ==
  [i \in 1..Len(activities) |-> WithId(activities[i].k, EmptyDict)]

(* {"_id": name, **details} for name, details in initial_activities.items() *)
SeedActivityDocuments(activities) ==
  [i \in 1..Len(activities) |-> WithId(activities[i].k, activities[i].v)]

(* {"_id": teacher["username"], **teacher} for teacher in initial_teachers *)
SeedTeacherDocuments(teachers) ==
  [i \in 1..Len(teachers) |-> WithId(teachers[i].username.v, teachers[i])]

(* Lines 36-44: the server's collections after the real branch *)
SeededServer(server) ==
  [activities |-> IF Len(server.activities) = 0
                  THEN SeedActivityDocuments(initial_activities)
                  ELSE server.activities,
   teachers |-> IF Len(server.teachers) = 0
                THEN SeedTeacherDocuments(initial_teachers)
                ELSE server.teachers]

InitDatabase ==
  IF USE_MONGODB
  THEN /\ mongo_data' = IF mongo_up THEN SeededServer(mongo_data) ELSE mongo_data
       /\ last' = Call("init_database", "both",
                       [activities |-> mongo_up /\ Len(mongo_data.activities) = 0,
                        teachers |-> mongo_up /\ Len(mongo_data.teachers) = 0],
                       None)
       /\ ret' = IF mongo_up THEN None ELSE Raised("ServerSelectionTimeoutError")
       /\ UNCHANGED <<activities_data, teachers_data, initial_teachers,
                      teachers_alias, nops, USE_MONGODB, activities_collection,
                      teachers_collection, mongo_up>>
  ELSE LET seed_activities == IsEmpty(activities_data)
           seed_teachers == IsEmpty(teachers_data)
       IN /\ activities_data' = IF seed_activities THEN initial_activities
                                ELSE activities_data
          /\ teachers_data' = IF seed_teachers
                              THEN TeachersByUsername(initial_teachers, 1)
                              ELSE teachers_data
          /\ teachers_alias' = IF seed_teachers
                               THEN AliasByUsername(initial_teachers)
                               ELSE teachers_alias
          /\ last' = Call("init_database", "both",
                          [activities |-> seed_activities, teachers |-> seed_teachers],
                          None)
          /\ ret' = None
          /\ UNCHANGED <<initial_teachers, nops>>
          /\ UNCHANGED backend

(* Binds the dict of collection c after a call; the other is untouched *)
Store(c, data) ==
  IF c = "activities"
  THEN activities_data' = data /\ UNCHANGED teachers_data
  ELSE teachers_data' = data /\ UNCHANGED activities_data

(* A stored teacher dict that is still the object held by initial_teachers *)
Shared(c, doc_id) ==
  /\ c = "teachers"
  /\ Truthy(doc_id)
  /\ doc_id.v \in DOMAIN teachers_alias

InsertOne(c, document) ==
  LET doc_id == Get(document, "_id", None) IN
  /\ nops < MaxOps
  /\ Bound(c) = "MockCollection"
  /\ Store(c, insert_one(Data(c), document))
  /\ teachers_alias' = IF Shared(c, doc_id)
                       THEN [key \in DOMAIN teachers_alias \ {doc_id.v} |->
                               teachers_alias[key]]
                       ELSE teachers_alias
  /\ last' = Call("insert_one", c, document, None)
  /\ ret' = None
  /\ nops' = nops + 1
  /\ UNCHANGED initial_teachers
  /\ UNCHANGED backend

UpdateOne(c, filter_dict, update_dict) ==
  LET doc_id == Get(filter_dict, "_id", None)
      r == update_one(Data(c), filter_dict, update_dict)
  IN /\ nops < MaxOps
     /\ Bound(c) = "MockCollection"
     /\ Store(c, r.data)
     /\ initial_teachers' =
          IF Shared(c, doc_id)
          THEN [initial_teachers EXCEPT ![teachers_alias[doc_id.v]] =
                  DictGet(r.data, doc_id.v)]
          ELSE initial_teachers
     /\ last' = Call("update_one", c, filter_dict, update_dict)
     /\ ret' = r.ret
     /\ nops' = nops + 1
     /\ UNCHANGED teachers_alias
     /\ UNCHANGED backend

Find(c, filter_dict) ==
  /\ nops < MaxOps
  /\ Bound(c) = "MockCollection"
  /\ last' = Call("find", c, filter_dict, None)
  /\ ret' = find(Data(c), filter_dict)
  /\ nops' = nops + 1
  /\ UNCHANGED <<activities_data, teachers_data, initial_teachers, teachers_alias>>
  /\ UNCHANGED backend

FindOne(c, filter_dict) ==
  /\ nops < MaxOps
  /\ Bound(c) = "MockCollection"
  /\ last' = Call("find_one", c, filter_dict, None)
  /\ ret' = find_one(Data(c), filter_dict)
  /\ nops' = nops + 1
  /\ UNCHANGED <<activities_data, teachers_data, initial_teachers, teachers_alias>>
  /\ UNCHANGED backend

CountDocuments(c, filter_dict) ==
  /\ nops < MaxOps
  /\ Bound(c) = "MockCollection"
  /\ last' = Call("count_documents", c, filter_dict, None)
  /\ ret' = count_documents(Data(c), filter_dict)
  /\ nops' = nops + 1
  /\ UNCHANGED <<activities_data, teachers_data, initial_teachers, teachers_alias>>
  /\ UNCHANGED backend

Aggregate(c, pipeline) ==
  /\ nops < MaxOps
  /\ Bound(c) = "MockCollection"
  /\ last' = Call("aggregate", c, pipeline, None)
  /\ ret' = aggregate(Data(c), pipeline)
  /\ nops' = nops + 1
  /\ UNCHANGED <<activities_data, teachers_data, initial_teachers, teachers_alias>>
  /\ UNCHANGED backend

Next ==
  \/ InitDatabase
  \/ \E c \in Collections : \E document \in Documents(c) : InsertOne(c, document)
  \/ \E c \in Collections : \E f \in KeyFilters(c) : \E u \in Updates(c, f) :
       UpdateOne(c, f, u)
  \/ \E c \in Collections : \E f \in Filters(c) : Find(c, f)
  \/ \E c \in Collections : \E f \in KeyFilters(c) : FindOne(c, f)
  \/ \E c \in Collections : \E f \in CountFilters(c) : CountDocuments(c, f)
  \/ \E c \in Collections : \E p \in Pipelines(c) : Aggregate(c, p)

Spec == Init /\ [][Next]_vars

(* find({}) on a collection bound to the server *)
MongoFind(c) ==
  /\ nops < MaxOps
  /\ Bound(c) = "Collection"
  /\ last' = Call("find", c, EmptyDict, None)
  /\ ret' = IF mongo_up THEN mongo_data[c] ELSE Raised("ServerSelectionTimeoutError")
  /\ nops' = nops + 1
  /\ UNCHANGED <<activities_data, teachers_data, initial_teachers, teachers_alias>>
  /\ UNCHANGED backend

(* The server at localhost:27017 starts or stops answering *)
ServerFlips ==
  /\ mongo_up' = ~mongo_up
  /\ UNCHANGED <<activities_data, teachers_data, initial_teachers, teachers_alias,
                 last, ret, nops, USE_MONGODB, activities_collection,
                 teachers_collection, mongo_data>>

NextBackend ==
  \/ InitDatabase
  \/ \E c \in Collections : \E document \in Documents(c) : InsertOne(c, document)
  \/ \E c \in Collections : \E f \in KeyFilters(c) : \E u \in Updates(c, f) :
       UpdateOne(c, f, u)
  \/ \E c \in Collections : \E f \in Filters(c) : Find(c, f)
  \/ \E c \in Collections : \E f \in KeyFilters(c) : FindOne(c, f)
  \/ \E c \in Collections : \E f \in CountFilters(c) : CountDocuments(c, f)
  \/ \E c \in Collections : \E p \in Pipelines(c) : Aggregate(c, p)
  \/ \E c \in Collections : MongoFind(c)
  \/ ServerFlips

SpecBackend == InitBackend /\ [][NextBackend]_vars

-----------------------------------------------------------------------------
(* Properties *)

CarriesKey(document) ==
  "_id" \in DOMAIN document /\ document["_id"].v # ""

(* C1: insert_one(D) of a document D that carries a key, followed by       *)
(* find_one({"_id": key of D}), returns a document equal to D (same key,   *)
(* same fields, same values), whatever the collection held before.         *)
C1_InsertThenFindOne ==
  /\ (last.op = "insert_one" /\ CarriesKey(last.a))
       => find_one(Data(last.coll), IdFilter(last.a["_id"].v)) = last.a
  /\ \A c \in Collections : \A D \in Documents(c) :
       CarriesKey(D)
         => find_one(insert_one(Data(c), D), IdFilter(D["_id"].v)) = D

C1_Witness ==
  /\ last.op = "insert_one"
  /\ last.coll = "activities"
  /\ last.a = IdFilter("Chess Club") @@ NoSchedule
  /\ Len(activities_data) = Len(initial_activities)
  /\ find_one(activities_data, IdFilter("Chess Club")) = last.a

(* C2: count_documents(filter) is the number of documents find(filter)     *)
(* returns, for every filter in every reachable collection state; with an  *)
(* empty filter that is the total number of documents.                     *)
C2_CountIsNumberOfMatches ==
  \A c \in Collections : \A f \in Filters(c) \cup CountFilters(c) :
    /\ count_documents(Data(c), f) = Len(find(Data(c), f))
    /\ f = EmptyDict => count_documents(Data(c), f) = Len(Data(c))

SupportedClause(field, criteria) ==
  \/ field = "schedule_details.days" /\ DOMAIN criteria = {"$in"}
  \/ field = "schedule_details.start_time" /\ DOMAIN criteria = {"$gte"}
  \/ field = "schedule_details.end_time" /\ DOMAIN criteria = {"$lte"}

HasUnsupportedClause(f) ==
  /\ f # None
  /\ \E field \in DOMAIN f : ~SupportedClause(field, f[field])

(* C3: find with a non-empty filter that has a clause outside the three    *)
(* supported field/operator combinations returns no documents (the clause  *)
(* matches no document) and raises nothing.                                *)
C3_UnsupportedClauseMatchesNothing ==
  \A c \in Collections : \A f \in Filters(c) :
    HasUnsupportedClause(f) => find(Data(c), f) = <<>>

(* Fields and values of the list mutations the properties range over *)
ListFields == {"participants", "waitlist"}

ListValues == {"michael@mergington.edu", "zoe@mergington.edu"}

(* The sequence a field holds; an absent field holds none *)
FieldSeq(doc, field) == IF field \in DOMAIN doc THEN doc[field].v ELSE <<>>

AbsentOrSeq(doc, field) == field \notin DOMAIN doc \/ doc[field].kind = "list"

Push(field, v) == "$push" :> <<Item(field, v)>>

Pull(field, v) == "$pull" :> <<Item(field, v)>>

PushThenPull(data, key, field, v) ==
  update_one(update_one(data, IdFilter(key), Push(field, v)).data,
             IdFilter(key), Pull(field, v))

RoundTrips(data, key, field, v) ==
  LET r == PushThenPull(data, key, field, v) IN
  /\ FieldSeq(DictGet(r.data, key), field) = FieldSeq(DictGet(data, key), field)
  /\ r.ret = Result(1)

(* C4 as stated: for every existing key, every field that is absent, empty *)
(* or holds any sequence (also one that already contains v) and every      *)
(* value v, "$push" of v followed by "$pull" of v leaves the field with    *)
(* its original sequence and the second update reports modified_count 1.   *)
C4_PushPullRestoresAnySequence ==
  \A c \in Collections : \A key \in DictKeys(Data(c)) :
    \A field \in ListFields : \A v \in ListValues :
      AbsentOrSeq(DictGet(Data(c), key), field)
        => RoundTrips(Data(c), key, field, v)

(* No element other than v follows the first occurrence of v in q *)
OnlyTrailing(q, v) ==
  \A i \in 1..Len(q) : \A j \in i..Len(q) : q[i] = v => q[j] = v

(* C4 amended: for every existing key, every value v and every field that *)
(* is absent, empty or holds a sequence in which no other element follows  *)
(* the first occurrence of v, "$push" of v followed by "$pull" of v leaves *)
(* the field with its original sequence (an absent field ends as the empty *)
(* sequence) and the second update reports modified_count 1.               *)
C4_PushPullRestoresSequence ==
  \A c \in Collections : \A key \in DictKeys(Data(c)) :
    \A field \in ListFields : \A v \in ListValues :
      (/\ AbsentOrSeq(DictGet(Data(c), key), field)
       /\ OnlyTrailing(FieldSeq(DictGet(Data(c), key), field), v))
        => RoundTrips(Data(c), key, field, v)

C4_Witness ==
  /\ last.op = "update_one"
  /\ last.coll = "activities"
  /\ last.a = IdFilter("Chess Club")
  /\ last.b = Pull("waitlist", "zoe@mergington.edu")
  /\ ret = Result(1)
  /\ "Chess Club" \in DictKeys(activities_data)
  /\ "waitlist" \in DOMAIN DictGet(activities_data, "Chess Club")
  /\ DictGet(activities_data, "Chess Club")["waitlist"] = ListV(<<>>)

(* C5: "$pull" on an existing key whose named field is absent, is not a    *)
(* sequence or does not contain the value raises nothing, leaves the       *)
(* document unchanged and reports modified_count 0.                        *)
C5_NoOpPullReportsZero ==
  \A c \in Collections : \A key \in DictKeys(Data(c)) :
    \A field \in ListFields \cup {"description"} : \A v \in ListValues :
      LET doc == DictGet(Data(c), key)
          r == update_one(Data(c), IdFilter(key), Pull(field, v))
      IN (\/ field \notin DOMAIN doc
          \/ doc[field].kind # "list"
          \/ ~InList(v, doc[field].v))
           => r.data = Data(c) /\ r.ret = Result(0)

KeyMissing(data, filter_dict) ==
  \/ "_id" \notin DOMAIN filter_dict
  \/ filter_dict["_id"].v \notin DictKeys(data)

(* C6: update_one on a key that is not in the collection, with any         *)
(* mutation, returns modified_count 0, raises nothing and leaves every     *)
(* document and the key set of the collection unchanged.                   *)
C6_UpdateMissingKey ==
  [][(last'.op = "update_one" /\ KeyMissing(Data(last'.coll), last'.a))
       => /\ ret' = Result(0)
          /\ activities_data' = activities_data
          /\ teachers_data' = teachers_data
          /\ initial_teachers' = initial_teachers]_vars

C6_Witness ==
  /\ last.op = "update_one"
  /\ last.coll = "activities"
  /\ last.a = IdFilter("New Club")
  /\ "$set" \in DOMAIN last.b
  /\ ret = Result(0)
  /\ "New Club" \notin DictKeys(activities_data)
  /\ Len(activities_data) = Len(initial_activities)

(* C7: init_database on a collection that is already non-empty, after any  *)
(* sequence of seeds, inserts and updates, changes neither count({}) nor   *)
(* the documents of that collection.                                       *)
C7_SeedingIdempotent ==
  [][last'.op = "init_database"
       => \A c \in Collections :
            Data(c) # <<>>
              => /\ count_documents(Data(c)', EmptyDict)
                      = count_documents(Data(c), EmptyDict)
                 /\ find(Data(c)', EmptyDict) = find(Data(c), EmptyDict)
                 /\ Data(c)' = Data(c)]_vars

C7_Witness ==
  /\ last.op = "init_database"
  /\ last.a = [activities |-> FALSE, teachers |-> FALSE]
  /\ nops > 0
  /\ activities_data # initial_activities
  /\ Len(teachers_data) > Len(InitialTeachers)

(* The document a data set entry is looked up as: its key and its fields *)
Keyed(key, fields) ==
  [f \in DOMAIN fields \cup {"_id"} |->
     IF f = "_id" THEN StrV(key) ELSE fields[f]]

SeededAsDataset(c, data) ==
  IF c = "activities"
  THEN /\ count_documents(data, EmptyDict) = 13
       /\ count_documents(data, EmptyDict) = Len(initial_activities)
       /\ \A i \in 1..Len(initial_activities) :
            find_one(data, IdFilter(initial_activities[i].k))
              = Keyed(initial_activities[i].k, initial_activities[i].v)
  ELSE /\ count_documents(data, EmptyDict) = 3
       /\ count_documents(data, EmptyDict) = Len(InitialTeachers)
       /\ \A i \in 1..Len(InitialTeachers) :
            find_one(data, IdFilter(InitialTeachers[i].username.v))
              = Keyed(InitialTeachers[i].username.v, InitialTeachers[i])

(* C8: when a collection is empty as init_database runs, afterwards        *)
(* count({}) is the size of its static data set (13 activities, 3          *)
(* accounts) and find_one on each entry's key returns the entry's field    *)
(* values; this holds for each collection whether or not the other one was *)
(* empty.                                                                  *)
C8_SeedingFromEmpty ==
  [][last'.op = "init_database"
       => \A c \in Collections :
            Data(c) = <<>> => SeededAsDataset(c, Data(c)')]_vars

C8_Witness ==
  /\ last.op = "init_database"
  /\ last.a = [activities |-> TRUE, teachers |-> FALSE]
  /\ SeededAsDataset("activities", activities_data)
  /\ Len(teachers_data) = 1

(* Filters made of the three supported clauses *)
DayLists == {<<"Monday", "Tuesday">>, <<"Saturday">>}

StartBounds == {"15:15", "16:00"}

EndBounds == {"16:45"}

SupportedFilters ==
  { d @@ s @@ e :
      d \in {EmptyDict} \cup {DaysIn(l) : l \in DayLists},
      s \in {EmptyDict} \cup {StartGte(t) : t \in StartBounds},
      e \in {EmptyDict} \cup {EndLte(t) : t \in EndBounds} }

(* a <= b in lexicographic order of code points *)
LexLE(s, t) ==
  LET a == chars[s]
      b == chars[t]
  IN \E n \in 0..Len(a) :
       /\ n <= Len(b)
       /\ \A i \in 1..n : a[i] = b[i]
       /\ n = Len(a) \/ (n < Len(b) /\ a[n + 1] < b[n + 1])

Nested(doc, name, default) ==
  IF "schedule_details" \in DOMAIN doc /\ name \in DOMAIN doc["schedule_details"].v
  THEN doc["schedule_details"].v[name].v
  ELSE default

Range(q) == {q[i] : i \in 1..Len(q)}

Satisfies(doc, f) ==
  /\ "schedule_details.days" \in DOMAIN f
       => Range(Nested(doc, "days", <<>>))
            \cap Range(f["schedule_details.days"]["$in"].v) # {}
  /\ "schedule_details.start_time" \in DOMAIN f
       => LexLE(f["schedule_details.start_time"]["$gte"].v,
                Nested(doc, "start_time", ""))
  /\ "schedule_details.end_time" \in DOMAIN f
       => LexLE(Nested(doc, "end_time", ""),
                f["schedule_details.end_time"]["$lte"].v)

(* C9: for every filter built from the three supported clauses, find       *)
(* returns exactly the documents that satisfy all clauses present: the     *)
(* weekday clause iff some weekday of the document is in the given list,   *)
(* the start-time clause iff start_time >= bound and the end-time clause   *)
(* iff end_time <= bound in lexicographic order.                           *)
C9_FilterSemantics ==
  \A f \in SupportedFilters :
    LET all == find(activities_data, None)
        Sat(doc) == Satisfies(doc, f)
    IN find(activities_data, f) = SelectSeq(all, Sat)

C9_Witness ==
  /\ last.op = "find"
  /\ last.coll = "activities"
  /\ last.a = DaysIn(<<"Monday", "Friday">>) @@ StartGte("15:15") @@ EndLte("16:45")
  /\ Len(ret) = 1
  /\ ret[1]["_id"] = StrV("Chess Club")
  /\ Len(activities_data) > Len(initial_activities)

Lacks(doc, name) ==
  \/ "schedule_details" \notin DOMAIN doc
  \/ name \notin DOMAIN doc["schedule_details"].v

Returned(data, i, f) == WithId(data[i].k, data[i].v) \in Range(find(data, f))

(* C10: a document without schedule_details, or without the nested field   *)
(* a clause refers to, is never returned under a weekday clause, is never   *)
(* returned under a start-time clause with a non-empty bound, and passes    *)
(* every end-time clause.                                                   *)
C10_AbsentNestedField ==
  \A i \in 1..Len(activities_data) :
    LET doc == activities_data[i].v IN
    /\ Lacks(doc, "days")
         => \A l \in DayLists : ~Returned(activities_data, i, DaysIn(l))
    /\ Lacks(doc, "start_time")
         => \A t \in StartBounds :
              ~Returned(activities_data, i, StartGte(t))
    /\ Lacks(doc, "end_time")
         => \A t \in EndBounds \cup {""} :
              Returned(activities_data, i, EndLte(t))

C10_Witness ==
  /\ last.op = "find"
  /\ last.coll = "activities"
  /\ last.a = DaysIn(<<"Saturday">>)
  /\ "New Club" \in DictKeys(activities_data)
  /\ Lacks(DictGet(activities_data, "New Club"), "days")
  /\ Len(ret) > 0
  /\ \A i \in 1..Len(ret) : ret[i]["_id"] # StrV("New Club")

(* Every weekday name some document's schedule_details.days holds *)
WeekdaysOf(data) ==
  UNION {Range(Nested(data[i].v, "days", <<>>)) : i \in 1..Len(data)}

SevenWeekdays ==
  {"Monday", "Tuesday", "Wednesday", "Thursday", "Friday", "Saturday", "Sunday"}

(* C11: the weekday aggregation returns each weekday name that occurs in    *)
(* some document's nested weekday list exactly once, nothing else, in       *)
(* ascending order; on the seeded 13 activities these are the seven names   *)
(* Monday..Sunday.                                                          *)
C11_DistinctWeekdays ==
  LET r == aggregate(activities_data, DaysPipeline) IN
  /\ \A i \in 1..Len(r) : DOMAIN r[i] = {"_id"}
  /\ {r[i]["_id"].v : i \in 1..Len(r)} = WeekdaysOf(activities_data)
  /\ \A i \in 1..Len(r) : \A j \in (i + 1)..Len(r) :
       /\ r[i]["_id"].v # r[j]["_id"].v
       /\ LexLE(r[i]["_id"].v, r[j]["_id"].v)
  /\ activities_data = initial_activities
       => /\ {r[i]["_id"].v : i \in 1..Len(r)} = SevenWeekdays
          /\ Len(r) = 7
  /\ (last.op = "aggregate" /\ last.coll = "activities" /\ last.a = DaysPipeline)
       => ret = r

C11_Witness ==
  /\ last.op = "aggregate"
  /\ last.coll = "activities"
  /\ last.a = DaysPipeline
  /\ Len(activities_data) > Len(initial_activities)
  /\ Len(ret) = 7
  /\ ret[1] = [_id |-> StrV("Friday")]
  /\ ret[7] = [_id |-> StrV("Wednesday")]

(* The keys find({}) reports are pairwise different and as many as count({}) *)
KeysUnique(data) ==
  LET r == find(data, EmptyDict) IN
  /\ \A i \in 1..Len(r) : \A j \in 1..Len(r) :
       i # j => r[i]["_id"] # r[j]["_id"]
  /\ count_documents(data, EmptyDict)
       = Cardinality({r[i]["_id"] : i \in 1..Len(r)})

(* C12: insert_one of a document whose key is already present replaces the   *)
(* stored document by the new one, raises nothing and leaves count({})       *)
(* unchanged; after every operation find({}) holds no two documents with     *)
(* the same key and count({}) is the number of distinct keys.                *)
C12_OverwriteAndKeyUniqueness ==
  [][\A c \in Collections :
       /\ (/\ last'.op = "insert_one"
           /\ last'.coll = c
           /\ CarriesKey(last'.a)
           /\ last'.a["_id"].v \in DictKeys(Data(c)))
            => /\ ret' = None
               /\ DictGet(Data(c)', last'.a["_id"].v) = WithoutId(last'.a)
               /\ count_documents(Data(c)', EmptyDict)
                    = count_documents(Data(c), EmptyDict)
       /\ KeysUnique(Data(c)')]_vars

(* C18: the static datasets initial_activities and initial_teachers hold     *)
(* their original values in every reachable state, whatever was inserted     *)
(* into or updated in the seeded collections.                                *)
C18_SeedDataIsolated ==
  initial_teachers = InitialTeachers

(* C19: every document find({}) or find_one returns carries an _id equal to  *)
(* the key it is stored under; find_one({"_id": k}) never returns a document *)
(* whose _id differs from k.                                                 *)
C19_AnnotationIsStorageKey ==
  \A c \in Collections :
    LET data == Data(c)
        r == find(data, EmptyDict)
    IN /\ \A x \in Range(r) :
            \E i \in 1..Len(data) : x = Keyed(data[i].k, data[i].v)
       /\ \A f \in KeyFilters(c) :
            (find_one(data, f) # None /\ "_id" \in DOMAIN f)
              => find_one(data, f)["_id"] = f["_id"]

(* C20: insert_one of a document whose key is absent or empty raises         *)
(* nothing and stores nothing: the documents, the key set and count({}) of   *)
(* the collection are as before, and find_one with that key finds nothing.   *)
C20_KeylessInsert ==
  [][\A c \in Collections :
       (last'.op = "insert_one" /\ last'.coll = c /\ ~CarriesKey(last'.a))
         => /\ ret' = None
            /\ Data(c)' = Data(c)
            /\ DictKeys(Data(c)') = DictKeys(Data(c))
            /\ count_documents(Data(c)', EmptyDict)
                 = count_documents(Data(c), EmptyDict)
            /\ find_one(Data(c)', [f \in DOMAIN last'.a \cap {"_id"} |-> last'.a[f]])
                 = None]_vars

C20_Witness ==
  /\ last.op = "insert_one"
  /\ last.coll = "activities"
  /\ last.a = IdFilter("") @@ FullSchedule
  /\ Len(activities_data) = Len(initial_activities)
  /\ find_one(activities_data, IdFilter("")) = None

Mutations == {"$set", "$push", "$pull"}

(* The field names a mutation names *)
NamedFields(update_dict) ==
  IF "$set" \in DOMAIN update_dict THEN DOMAIN update_dict["$set"]
  ELSE IF "$push" \in DOMAIN update_dict
  THEN {update_dict["$push"][i].field : i \in 1..Len(update_dict["$push"])}
  ELSE {update_dict["$pull"][i].field : i \in 1..Len(update_dict["$pull"])}

(* The step was an update_one of collection c on a key c held *)
UpdatedExisting(c) ==
  /\ last'.op = "update_one"
  /\ last'.coll = c
  /\ ~KeyMissing(Data(c), last'.a)
  /\ DOMAIN last'.b \cap Mutations # {}

(* C14: update_one on an existing key with a $set, $push or $pull mutation   *)
(* returns modified_count 1, changes only the fields the mutation names in   *)
(* the document at that key ($set merges the given fields and keeps all      *)
(* others), and leaves every other document and the key set unchanged.       *)
C14_UpdateFrame ==
  [][\A c \in Collections :
       UpdatedExisting(c)
         => LET key == last'.a["_id"].v
                old == DictGet(Data(c), key)
                new == DictGet(Data(c)', key)
                named == NamedFields(last'.b)
            IN /\ ret' = Result(1)
               /\ Len(Data(c)') = Len(Data(c))
               /\ \A i \in 1..Len(Data(c)) :
                    /\ Data(c)'[i].k = Data(c)[i].k
                    /\ Data(c)[i].k # key => Data(c)'[i].v = Data(c)[i].v
               /\ DOMAIN new \ named = DOMAIN old \ named
               /\ \A f \in DOMAIN old \ named : new[f] = old[f]
               /\ "$set" \in DOMAIN last'.b
                    => \A f \in named : new[f] = last'.b["$set"][f]]_vars

(* The sequence q without its first occurrence of x, stated by position *)
WithoutFirst(q, x, r) ==
  \E p \in 1..Len(q) :
    /\ q[p] = x
    /\ \A n \in 1..(p - 1) : q[n] # x
    /\ r = SubSeq(q, 1, p - 1) \o SubSeq(q, p + 1, Len(q))

Occurrences(q, x) == Cardinality({n \in 1..Len(q) : q[n] = x})

(* The "$push" loop reaches item n: no earlier item named a non-sequence *)
Reached(old, items, n) ==
  \A m \in 1..(n - 1) : AbsentOrSeq(old, items[m].field)

(* C15: $push makes the value the last element of the named field's          *)
(* sequence (a one-element sequence when the field was absent) and keeps     *)
(* the earlier elements in order; $pull deletes exactly the first            *)
(* occurrence of the value, so a sequence holding it n >= 1 times holds it   *)
(* n-1 times afterwards with the other elements in their order; a field      *)
(* that is not a sequence is left untouched.                                 *)
C15_ListMutation ==
  [][\A c \in Collections :
       UpdatedExisting(c) /\ "$set" \notin DOMAIN last'.b
         => LET key == last'.a["_id"].v
                old == DictGet(Data(c), key)
                new == DictGet(Data(c)', key)
            IN IF "$push" \in DOMAIN last'.b
               THEN LET items == last'.b["$push"] IN
                    \A n \in 1..Len(items) :
                      Reached(old, items, n)
                        => LET f == items[n].field
                               x == items[n].value
                           IN IF f \notin DOMAIN old
                              THEN new[f] = ListV(<<x>>)
                              ELSE IF old[f].kind = "list"
                              THEN /\ new[f].kind = "list"
                                   /\ Len(new[f].v) = Len(old[f].v) + 1
                                   /\ new[f].v[Len(new[f].v)] = x
                                   /\ SubSeq(new[f].v, 1, Len(old[f].v)) = old[f].v
                              ELSE new[f] = old[f]
               ELSE LET items == last'.b["$pull"] IN
                    \A n \in 1..Len(items) :
                      LET f == items[n].field
                          x == items[n].value
                      IN IF f \notin DOMAIN old
                         THEN f \notin DOMAIN new
                         ELSE IF old[f].kind = "list" /\ Occurrences(old[f].v, x) >= 1
                         THEN /\ new[f].kind = "list"
                              /\ WithoutFirst(old[f].v, x, new[f].v)
                              /\ Occurrences(new[f].v, x)
                                   = Occurrences(old[f].v, x) - 1
                         ELSE new[f] = old[f]]_vars

C15_Witness ==
  /\ last.op = "update_one"
  /\ last.coll = "activities"
  /\ last.a = IdFilter("Chess Club")
  /\ last.b = "$pull" :> <<Item("participants", "michael@mergington.edu")>>
  /\ ret = Result(1)
  /\ DictGet(activities_data, "Chess Club")["participants"]
       = ListV(<<"daniel@mergington.edu", "michael@mergington.edu">>)

(* The keys in the order the dict holds them *)
KeyOrder(data) == [i \in 1..Len(data) |-> data[i].k]

IsPrefix(p, q) == Len(p) <= Len(q) /\ SubSeq(q, 1, Len(p)) = p

(* r can be obtained from q by deleting elements *)
RECURSIVE IsSubseq(_, _)
IsSubseq(r, q) ==
  IF r = <<>> THEN TRUE
  ELSE IF q = <<>> THEN FALSE
  ELSE IF Head(r) = Head(q) THEN IsSubseq(Tail(r), Tail(q))
  ELSE IsSubseq(r, Tail(q))

(* x is the stored entry e as find reports it *)
Reports(x, e) ==
  /\ DOMAIN x = DOMAIN e.v \cup {"_id"}
  /\ \A f \in DOMAIN e.v : x[f] = e.v[f]
  /\ "_id" \notin DOMAIN e.v => x["_id"] = StrV(e.k)

(* C16: keys stay in the order of their first insertion (a step only adds    *)
(* new keys at the end; an overwrite or an update moves nothing); find({})   *)
(* lists the documents in that order and a find with a filter returns a      *)
(* subsequence of it; find changes nothing, and a second find with the same  *)
(* filter returns the same sequence.                                         *)
C16_FindOrdering ==
  [][\A c \in Collections :
       LET all == find(Data(c)', EmptyDict) IN
       /\ IsPrefix(KeyOrder(Data(c)), KeyOrder(Data(c)'))
       /\ Len(all) = Len(Data(c)')
       /\ \A i \in 1..Len(all) : Reports(all[i], Data(c)'[i])
       /\ (last'.op = "find" /\ last'.coll = c)
            => /\ activities_data' = activities_data
               /\ teachers_data' = teachers_data
               /\ IsSubseq(ret', all)
               /\ (last.op = "find" /\ last.coll = c /\ last.a = last'.a)
                    => ret' = ret]_vars

C16_Witness ==
  /\ last.op = "find"
  /\ last.coll = "activities"
  /\ last.a = EmptyDict
  /\ Len(ret) = Len(initial_activities)
  /\ ret[1] = IdFilter("Chess Club") @@ NoSchedule
  /\ ret[2]["_id"] = StrV("Programming Class")

(* Both names are bound to objects of one class, the one USE_MONGODB names *)
BindingConsistent ==
  /\ activities_collection = teachers_collection
  /\ USE_MONGODB <=> activities_collection = "Collection"
  /\ ~USE_MONGODB <=> activities_collection = "MockCollection"

(* C13: the backend is chosen at import and never changes: both collections  *)
(* are bound to the same kind of backend, no step (seeding, query, update,   *)
(* the server starting or stopping) changes USE_MONGODB or either binding,   *)
(* and once the probe has failed every call is served from memory and the    *)
(* server is never touched, even when it has become reachable.               *)
C13_BindingPermanent ==
  [][/\ BindingConsistent
     /\ USE_MONGODB' = USE_MONGODB
     /\ activities_collection' = activities_collection
     /\ teachers_collection' = teachers_collection
     /\ ~USE_MONGODB
          => /\ mongo_data' = mongo_data
             /\ last'.op = "find" => ret' = find(Data(last'.coll), last'.a)
             /\ last'.op = "init_database"
                  => /\ ret' = None
                     /\ activities_data' # <<>>
                     /\ teachers_data' # <<>>]_vars

C13_Witness ==
  /\ ~USE_MONGODB
  /\ mongo_up
  /\ activities_collection = "MockCollection"
  /\ teachers_collection = "MockCollection"
  /\ last.op = "find"
  /\ last.coll = "activities"
  /\ Len(ret) = Len(initial_activities)
  /\ mongo_data = EmptyServer

ExpectedActivities ==
  [i \in 1..Len(initial_activities) |->
     Keyed(initial_activities[i].k, initial_activities[i].v)]

ExpectedTeachers ==
  [i \in 1..Len(InitialTeachers) |->
     Keyed(InitialTeachers[i].username.v, InitialTeachers[i])]

(* C17: seeding empty collections gives the same documents on both           *)
(* backends: after the fallback branch find({}) returns, and in the real     *)
(* branch the server is sent, for each activity {_id: name, plus its         *)
(* details} and for each account {_id: username, plus all account fields,    *)
(* username included}.                                                       *)
C17_SameSeedOnBothBackends ==
  [][(last'.op = "init_database" /\ ret' = None)
       => /\ (~USE_MONGODB /\ activities_data = <<>>)
               => /\ Range(find(activities_data', EmptyDict)) = Range(ExpectedActivities)
                  /\ Len(activities_data') = Len(ExpectedActivities)
          /\ (~USE_MONGODB /\ teachers_data = <<>>)
               => /\ Range(find(teachers_data', EmptyDict)) = Range(ExpectedTeachers)
                  /\ Len(teachers_data') = Len(ExpectedTeachers)
                  /\ \A x \in Range(find(teachers_data', EmptyDict)) :
                       x["username"] = x["_id"]
          /\ (USE_MONGODB /\ mongo_data.activities = <<>>)
               => /\ Range(mongo_data'.activities) = Range(ExpectedActivities)
                  /\ Len(mongo_data'.activities) = Len(ExpectedActivities)
          /\ (USE_MONGODB /\ mongo_data.teachers = <<>>)
               => /\ Range(mongo_data'.teachers) = Range(ExpectedTeachers)
                  /\ Len(mongo_data'.teachers) = Len(ExpectedTeachers)]_vars

C17_Witness ==
  /\ last.op = "init_database"
  /\ last.a = [activities |-> TRUE, teachers |-> TRUE]
  /\ ~USE_MONGODB
  /\ Range(find(activities_data, EmptyDict)) = Range(ExpectedActivities)
  /\ Range(find(teachers_data, EmptyDict)) = Range(ExpectedTeachers)
====
